---- MODULE Spec2Model ----
(***************************************************************************)
(* The rule engine of the bridge-crossing game (src/game.js): Character,   *)
(* GameState and BridgeController, driven through the engine's calls       *)
(* executeCrossing(characters) (no scene: the immediate path),             *)
(* Character.toggleSelection() and GameState.reset().  That is Spec.       *)
(*                                                                         *)
(* SpecScene drives the same engine the way the game does: through         *)
(* InputHandler.handleCharacterSelection and handleCrossingAction and      *)
(* MainGameScene.handleLanternReturn, with executeCrossing(characters,     *)
(* scene) starting an animation whose onComplete callback applies the      *)
(* crossing later.                                                         *)
(*                                                                         *)
(* SpecQueries adds the engine's queries, SpecSession and FairSession are  *)
(* whole sessions of valid moves with no cap on their number, and          *)
(* SpecRestart is the scene with its Reset Game button.                    *)
(*                                                                         *)
(* A character is its index 1..4 in GameState.characters.  A state of the  *)
(* model is a state of the program between two calls.  The timestamp of a  *)
(* move record (Date.now()) is left out: nothing reads it.                 *)
(***************************************************************************)
EXTENDS Integers, Sequences, FiniteSets, TLC

VARIABLES
    side,           \* side[c]: Character.side
    selected,       \* selected[c]: Character.selected
    timeRemaining,  \* GameState.timeRemaining
    lanternSide,    \* GameState.lanternSide
    gameStatus,     \* GameState.gameStatus
    moveHistory,    \* GameState.moveHistory
    inputEnabled,   \* InputHandler.inputEnabled
    selectedCharacters, \* InputHandler.selectedCharacters, the cached list
    pending,        \* the animations playing, oldest first, each with the
                    \* arguments its onComplete callback closes over
    lastOp,         \* the call that produced this state
    lastArg,        \* its argument (a sequence of characters)
    lastResult      \* what the last executeCrossing returned

vars == <<side, selected, timeRemaining, lanternSide, gameStatus, moveHistory,
          inputEnabled, selectedCharacters, pending,
          lastOp, lastArg, lastResult>>

(***************************************************************************)
(* Bounds of the model.                                                    *)
(***************************************************************************)
\* the longest selection handed to executeCrossing
MaxSelection == 3
\* the number of accepted crossings explored in one session
MaxMoves == 5
\* the number of characters selected at once in the sessions explored
MaxSelected == 1
\* the number of animations playing at once in the sessions explored
MaxPending == 2
\* the number of crossings started in one session of the scene
MaxSceneMoves == 3

(***************************************************************************)
(* Character and GameState.                                                *)
(***************************************************************************)
InitialTime == 17

Names == <<"You", "Lab Assistant", "Janitor", "Professor">>

\* a roster whose second character needs 3 minutes
CrossingTimes_SlowAssistant == <<1, 3, 5, 10>>

\* a roster whose Professor crosses in 8 minutes
CrossingTimes_FastProfessor == <<1, 2, 5, 8>>

\* a roster whose Athlete crosses in no time
CrossingTimes_FreeAthlete == <<0, 2, 5, 10>>

CrossingTimes == <<1, 2, 5, 10>>

Characters == 1..Len(Names)

\* The GameState object (with its characters' mutable fields) as one value.
GS ==
    [side |-> side, selected |-> selected, timeRemaining |-> timeRemaining,
     lanternSide |-> lanternSide, gameStatus |-> gameStatus,
     moveHistory |-> moveHistory]

\* a new game whose lantern starts on the right
NewGameState_LanternRight ==
    [side |-> [c \in Characters |-> "left"],
     selected |-> [c \in Characters |-> FALSE],
     timeRemaining |-> InitialTime,
     lanternSide |-> "right",
     gameStatus |-> "playing",
     moveHistory |-> <<>>]

\* new GameState()
NewGameState ==
    [side |-> [c \in Characters |-> "left"],
     selected |-> [c \in Characters |-> FALSE],
     timeRemaining |-> InitialTime,
     lanternSide |-> "left",
     gameStatus |-> "playing",
     moveHistory |-> <<>>]

\* Character.toggleSelection
toggleSelection(g, c) ==
    [g EXCEPT !.selected[c] = ~g.selected[c]]

\* moveTo taking whatever it is handed
moveTo_AnySide(g, c, s) ==
    [g EXCEPT !.side[c] = s]

\* Character.moveTo
moveTo(g, c, s) ==
    IF s = "left" \/ s = "right" THEN [g EXCEPT !.side[c] = s] ELSE g

\* GameState.getCharactersOnSide, in roster order
RECURSIVE FilterSide(_, _, _)
FilterSide(g, s, c) ==
    IF c > Len(Names) THEN <<>>
    ELSE (IF g.side[c] = s THEN <<c>> ELSE <<>>) \o FilterSide(g, s, c + 1)

getCharactersOnSide(g, s) == FilterSide(g, s, 1)

\* moveLantern leaving the lantern where it is
moveLantern_Stays(g, s) == g

\* GameState.moveLantern
moveLantern(g, s) ==
    IF s = "left" \/ s = "right" THEN [g EXCEPT !.lanternSide = s] ELSE g

\* checkVictoryCondition counting one character too few
checkVictoryCondition_ThreeSuffice(g) ==
    IF Len(getCharactersOnSide(g, "right")) >= Len(Names) - 1
    THEN [g EXCEPT !.gameStatus = "won"]
    ELSE g

\* checkVictoryCondition putting the game back to 'playing' when not all
\* characters are on the right
checkVictoryCondition_ElsePlaying(g) ==
    IF Len(getCharactersOnSide(g, "right")) = Len(Names)
    THEN [g EXCEPT !.gameStatus = "won"]
    ELSE [g EXCEPT !.gameStatus = "playing"]

\* GameState.checkVictoryCondition: the boolean it returns
checkVictoryConditionReturns(g) ==
    Len(getCharactersOnSide(g, "right")) = Len(Names)

\* GameState.checkVictoryCondition: the state it leaves
checkVictoryCondition(g) ==
    IF Len(getCharactersOnSide(g, "right")) = Len(Names)
    THEN [g EXCEPT !.gameStatus = "won"]
    ELSE g


\* updateTimer declaring the loss only below 0
updateTimer_LostBelowZero(g, timeUsed) ==
    LET g1 == [g EXCEPT !.timeRemaining = g.timeRemaining - timeUsed]
        g2 == IF g1.timeRemaining < 0
              THEN [g1 EXCEPT !.timeRemaining = 0, !.gameStatus = "lost"]
              ELSE g1
    IN  checkVictoryCondition(g2)

\* updateTimer without the floor at 0
updateTimer_NoFloor(g, timeUsed) ==
    LET g1 == [g EXCEPT !.timeRemaining = g.timeRemaining - timeUsed]
        g2 == IF g1.timeRemaining <= 0
              THEN [g1 EXCEPT !.gameStatus = "lost"]
              ELSE g1
    IN  checkVictoryCondition(g2)

\* GameState.updateTimer
updateTimer(g, timeUsed) ==
    LET g1 == [g EXCEPT !.timeRemaining = g.timeRemaining - timeUsed]
        g2 == IF g1.timeRemaining <= 0
              THEN [g1 EXCEPT !.timeRemaining = 0, !.gameStatus = "lost"]
              ELSE g1
    IN  checkVictoryCondition(g2)

\* recordMove pushing the record twice
recordMove_Twice(g, characters, timeUsed, fromSide, toSide) ==
    LET record == [characters |-> [i \in 1..Len(characters) |-> Names[characters[i]]],
                   timeUsed |-> timeUsed,
                   fromSide |-> fromSide,
                   toSide |-> toSide]
    IN  [g EXCEPT !.moveHistory = Append(Append(@, record), record)]

\* GameState.updateTimer up to its call of checkVictoryCondition
updateTimerBeforeCheck(g, timeUsed) ==
    LET g1 == [g EXCEPT !.timeRemaining = g.timeRemaining - timeUsed]
    IN  IF g1.timeRemaining <= 0
        THEN [g1 EXCEPT !.timeRemaining = 0, !.gameStatus = "lost"]
        ELSE g1

\* String.prototype.padStart without the padding
RECURSIVE padStart_None(_, _, _)
padStart_None(str, targetLength, padString) == str

\* String.prototype.padStart(targetLength, padString), padString one character
RECURSIVE padStart(_, _, _)
padStart(str, targetLength, padString) ==
    IF Len(str) >= targetLength THEN str
    ELSE padStart(padString \o str, targetLength, padString)

\* GameState.getFormattedTime for a timeRemaining of n / d minutes, d a power
\* of two (such a number and its seconds are exact in floating point)
getFormattedTimeOf(n, d) ==
    LET minutes == n \div d
        seconds == ((n - minutes * d) * 60) \div d
    IN  IF seconds > 0
        THEN ToString(minutes) \o ":" \o padStart(ToString(seconds), 2, "0")
        ELSE ToString(minutes) \o ":00"

\* GameState.getFormattedTime
getFormattedTime(g) == getFormattedTimeOf(g.timeRemaining, 1)

\* GameState.recordMove
recordMove(g, characters, timeUsed, fromSide, toSide) ==
    [g EXCEPT !.moveHistory =
        Append(@, [characters |-> [i \in 1..Len(characters) |-> Names[characters[i]]],
                   timeUsed |-> timeUsed,
                   fromSide |-> fromSide,
                   toSide |-> toSide])]

\* reset putting the time back but keeping the recorded moves
reset_KeepsHistory(g) ==
    [g EXCEPT !.timeRemaining = InitialTime,
              !.lanternSide = "left",
              !.gameStatus = "playing",
              !.side = [c \in Characters |-> "left"],
              !.selected = [c \in Characters |-> FALSE]]

\* GameState.reset
reset(g) ==
    [g EXCEPT !.timeRemaining = InitialTime,
              !.lanternSide = "left",
              !.gameStatus = "playing",
              !.moveHistory = <<>>,
              !.side = [c \in Characters |-> "left"],
              !.selected = [c \in Characters |-> FALSE]]

(***************************************************************************)
(* BridgeController.                                                       *)
(***************************************************************************)
\* the distinct values of characters.map(char => char.side)
SidesOf(g, characters) ==
    {g.side[characters[i]] : i \in 1..Len(characters)}

\* validateLanternMovement letting characters cross from the side without the lantern
validateLanternMovement_AnySide(g, characters) ==
    IF Len(characters) = 0
    THEN [valid |-> FALSE, errors |-> <<"No characters selected to carry the lantern">>]
    ELSE [valid |-> TRUE, errors |-> <<>>]

\* BridgeController.validateLanternMovement
validateLanternMovement(g, characters) ==
    IF Len(characters) = 0
    THEN [valid |-> FALSE, errors |-> <<"No characters selected to carry the lantern">>]
    ELSE LET characterSide == g.side[characters[1]]
             e1 == IF g.lanternSide # characterSide
                   THEN <<"Lantern is on the " \o g.lanternSide
                          \o " side, but selected characters are on the "
                          \o characterSide \o " side">>
                   ELSE <<>>
             charactersOnLanternSide == getCharactersOnSide(g, g.lanternSide)
             e2 == IF Len(charactersOnLanternSide) > 0 /\ Len(characters) = 0
                   THEN <<"At least one character must accompany the lantern when crossing">>
                   ELSE <<>>
             errors == e1 \o e2
         IN  [valid |-> Len(errors) = 0, errors |-> errors]

\* validateMove without rule 4
validateMove_NoPlayingRule(g, characters) ==
    IF Len(characters) = 0
    THEN [valid |-> FALSE, errors |-> <<"No characters selected for crossing">>]
    ELSE LET e1 == IF Len(characters) > 2
                   THEN <<"Maximum 2 characters can cross together">>
                   ELSE <<>>
             e2 == IF Cardinality(SidesOf(g, characters)) > 1
                   THEN <<"All selected characters must be on the same side">>
                   ELSE <<>>
             lanternValidation == validateLanternMovement(g, characters)
             e3 == IF ~lanternValidation.valid THEN lanternValidation.errors ELSE <<>>
             errors == e1 \o e2 \o e3
         IN  [valid |-> Len(errors) = 0, errors |-> errors]

\* validateMove whose rule 4 stops the game only once it is won
validateMove_OnlyWonStops(g, characters) ==
    IF Len(characters) = 0
    THEN [valid |-> FALSE, errors |-> <<"No characters selected for crossing">>]
    ELSE LET e1 == IF Len(characters) > 2
                   THEN <<"Maximum 2 characters can cross together">>
                   ELSE <<>>
             e2 == IF Cardinality(SidesOf(g, characters)) > 1
                   THEN <<"All selected characters must be on the same side">>
                   ELSE <<>>
             lanternValidation == validateLanternMovement(g, characters)
             e3 == IF ~lanternValidation.valid THEN lanternValidation.errors ELSE <<>>
             e4 == IF g.gameStatus = "won"
                   THEN <<"Game is not in playing state">>
                   ELSE <<>>
             errors == e1 \o e2 \o e3 \o e4
         IN  [valid |-> Len(errors) = 0, errors |-> errors]

\* validateMove returning as soon as the capacity rule fails
validateMove_StopsAtCapacity(g, characters) ==
    IF Len(characters) = 0
    THEN [valid |-> FALSE, errors |-> <<"No characters selected for crossing">>]
    ELSE IF Len(characters) > 2
    THEN [valid |-> FALSE, errors |-> <<"Maximum 2 characters can cross together">>]
    ELSE LET e2 == IF Cardinality(SidesOf(g, characters)) > 1
                   THEN <<"All selected characters must be on the same side">>
                   ELSE <<>>
             lanternValidation == validateLanternMovement(g, characters)
             e3 == IF ~lanternValidation.valid THEN lanternValidation.errors ELSE <<>>
             e4 == IF g.gameStatus # "playing"
                   THEN <<"Game is not in playing state">>
                   ELSE <<>>
             errors == e2 \o e3 \o e4
         IN  [valid |-> Len(errors) = 0, errors |-> errors]

\* validateMove going on to the playing-state rule for an empty selection
validateMove_EmptyGoesOn(g, characters) ==
    LET e0 == IF Len(characters) = 0
              THEN <<"No characters selected for crossing">>
              ELSE <<>>
        e1 == IF Len(characters) > 2
              THEN <<"Maximum 2 characters can cross together">>
              ELSE <<>>
        e2 == IF Cardinality(SidesOf(g, characters)) > 1
              THEN <<"All selected characters must be on the same side">>
              ELSE <<>>
        lanternValidation == validateLanternMovement(g, characters)
        e3 == IF Len(characters) > 0 /\ ~lanternValidation.valid
              THEN lanternValidation.errors ELSE <<>>
        e4 == IF g.gameStatus # "playing"
              THEN <<"Game is not in playing state">>
              ELSE <<>>
        errors == e0 \o e1 \o e2 \o e3 \o e4
    IN  [valid |-> Len(errors) = 0, errors |-> errors]

\* BridgeController.validateMove
validateMove(g, characters) ==
    IF Len(characters) = 0
    THEN [valid |-> FALSE, errors |-> <<"No characters selected for crossing">>]
    ELSE LET e1 == IF Len(characters) > 2
                   THEN <<"Maximum 2 characters can cross together">>
                   ELSE <<>>
             e2 == IF Cardinality(SidesOf(g, characters)) > 1
                   THEN <<"All selected characters must be on the same side">>
                   ELSE <<>>
             lanternValidation == validateLanternMovement(g, characters)
             e3 == IF ~lanternValidation.valid THEN lanternValidation.errors ELSE <<>>
             e4 == IF g.gameStatus # "playing"
                   THEN <<"Game is not in playing state">>
                   ELSE <<>>
             errors == e1 \o e2 \o e3 \o e4
         IN  [valid |-> Len(errors) = 0, errors |-> errors]

\* the crossing times added up instead of their maximum
RECURSIVE MaxCrossingTime_Sum(_)
MaxCrossingTime_Sum(characters) ==
    IF Len(characters) = 1 THEN CrossingTimes[characters[1]]
    ELSE CrossingTimes[characters[1]] + MaxCrossingTime_Sum(Tail(characters))

\* Math.max(...characters.map(char => char.crossingTime)), characters not empty
RECURSIVE MaxCrossingTime(_)
MaxCrossingTime(characters) ==
    IF Len(characters) = 1 THEN CrossingTimes[characters[1]]
    ELSE LET m == MaxCrossingTime(Tail(characters))
             t == CrossingTimes[characters[1]]
         IN  IF t > m THEN t ELSE m

\* the forEach of completeCrossing clearing the selected flag of the whole roster
RECURSIVE MoveEach_DeselectsAll(_, _, _)
MoveEach_DeselectsAll(g, characters, toSide) ==
    IF characters = <<>>
    THEN [g EXCEPT !.selected = [c \in Characters |-> FALSE]]
    ELSE MoveEach_DeselectsAll(moveTo(g, characters[1], toSide), Tail(characters), toSide)

\* characters.forEach(char => { char.moveTo(toSide); char.selected = false; })
RECURSIVE MoveEach(_, _, _)
MoveEach(g, characters, toSide) ==
    IF characters = <<>> THEN g
    ELSE LET c == characters[1]
             g1 == moveTo(g, c, toSide)
             g2 == [g1 EXCEPT !.selected[c] = FALSE]
         IN  MoveEach(g2, Tail(characters), toSide)

\* completeCrossing leaving the lantern behind
completeCrossing_LanternStays(g, characters, fromSide, toSide, crossingTime) ==
    LET g1 == MoveEach(g, characters, toSide)
        g3 == updateTimer(g1, crossingTime)
        g4 == recordMove(g3, characters, crossingTime, fromSide, toSide)
    IN  checkVictoryCondition(g4)

\* completeCrossing checking victory only while the game is still playing
completeCrossing_VictoryOnlyWhilePlaying(g, characters, fromSide, toSide, crossingTime) ==
    LET g1 == MoveEach(g, characters, toSide)
        g2 == moveLantern(g1, toSide)
        t == g2.timeRemaining - crossingTime
        g3 == IF t <= 0
              THEN [g2 EXCEPT !.timeRemaining = 0, !.gameStatus = "lost"]
              ELSE checkVictoryCondition([g2 EXCEPT !.timeRemaining = t])
    IN  recordMove(g3, characters, crossingTime, fromSide, toSide)

\* completeCrossing charging the clock once for each crosser
completeCrossing_ChargesEachCrosser(g, characters, fromSide, toSide, crossingTime) ==
    LET g1 == MoveEach(g, characters, toSide)
        g2 == moveLantern(g1, toSide)
        g3 == updateTimer(g2, crossingTime * Len(characters))
        g4 == recordMove(g3, characters, crossingTime, fromSide, toSide)
    IN  checkVictoryCondition(g4)

\* BridgeController.completeCrossing
completeCrossing(g, characters, fromSide, toSide, crossingTime) ==
    LET g1 == MoveEach(g, characters, toSide)
        g2 == moveLantern(g1, toSide)
        g3 == updateTimer(g2, crossingTime)
        g4 == recordMove(g3, characters, crossingTime, fromSide, toSide)
    IN  checkVictoryCondition(g4)

\* executeCrossing clearing the selection before it validates
executeCrossing_DeselectsFirst(g, characters) ==
    LET g0 == [g EXCEPT !.selected =
                  [c \in Characters |->
                      IF \E i \in 1..Len(characters) : characters[i] = c
                      THEN FALSE ELSE g.selected[c]]]
        validation == validateMove(g0, characters)
    IN  IF ~validation.valid
        THEN [state |-> g0,
              result |-> [success |-> FALSE, errors |-> validation.errors]]
        ELSE LET crossingTime == MaxCrossingTime(characters)
                 fromSide == g0.side[characters[1]]
                 toSide == IF fromSide = "left" THEN "right" ELSE "left"
                 g1 == completeCrossing(g0, characters, fromSide, toSide, crossingTime)
             IN  [state |-> g1,
                  result |-> [success |-> TRUE,
                              timeUsed |-> crossingTime,
                              fromSide |-> fromSide,
                              toSide |-> toSide,
                              gameStatus |-> g1.gameStatus]]

\* BridgeController.executeCrossing(characters) without a scene:
\* the GameState it leaves and the result it returns
executeCrossing(g, characters) ==
    LET validation == validateMove(g, characters)
    IN  IF ~validation.valid
        THEN [state |-> g,
              result |-> [success |-> FALSE, errors |-> validation.errors]]
        ELSE LET crossingTime == MaxCrossingTime(characters)
                 fromSide == g.side[characters[1]]
                 toSide == IF fromSide = "left" THEN "right" ELSE "left"
                 g1 == completeCrossing(g, characters, fromSide, toSide, crossingTime)
             IN  [state |-> g1,
                  result |-> [success |-> TRUE,
                              timeUsed |-> crossingTime,
                              fromSide |-> fromSide,
                              toSide |-> toSide,
                              gameStatus |-> g1.gameStatus]]

\* leftCharacters.forEach(char => moves.push([char]))
Singles(cs) == [k \in 1..Len(cs) |-> <<cs[k]>>]

\* the two nested loops: every [cs[i], cs[j]] with i < j, i outermost
RECURSIVE Pairs(_, _, _)
Pairs(cs, i, j) ==
    IF i > Len(cs) THEN <<>>
    ELSE IF j > Len(cs) THEN Pairs(cs, i + 1, i + 2)
    ELSE <<(<<cs[i], cs[j]>>)>> \o Pairs(cs, i, j + 1)

\* getAvailableMoves listing the moves of both sides, wherever the lantern is
getAvailableMoves_BothSides(g) ==
    LET leftCharacters == getCharactersOnSide(g, "left")
        rightCharacters == getCharactersOnSide(g, "right")
    IN  Singles(leftCharacters) \o Pairs(leftCharacters, 1, 2)
        \o Singles(rightCharacters) \o Pairs(rightCharacters, 1, 2)

\* BridgeController.getAvailableMoves: the list it returns
getAvailableMoves(g) ==
    LET leftCharacters == getCharactersOnSide(g, "left")
        rightCharacters == getCharactersOnSide(g, "right")
        fromLeft == IF g.lanternSide = "left" /\ Len(leftCharacters) > 0
                    THEN Singles(leftCharacters) \o Pairs(leftCharacters, 1, 2)
                    ELSE <<>>
        fromRight == IF g.lanternSide = "right" /\ Len(rightCharacters) > 0
                     THEN Singles(rightCharacters) \o Pairs(rightCharacters, 1, 2)
                     ELSE <<>>
    IN  fromLeft \o fromRight

(***************************************************************************)
(* The state machine: one action per call.                                 *)
(***************************************************************************)
\* the selections handed to executeCrossing: up to MaxSelection distinct
\* characters, listed in roster order, the order in which
\* getSelectedCharacters (a filter of GameState.characters) lists them
Selections ==
    {s : s \in UNION {{t \in [1..n -> Characters] :
                          \A i, j \in 1..n : i < j => t[i] < t[j]}
                     : n \in 0..MaxSelection}}

NoResult == [success |-> FALSE, errors |-> <<>>]

\* the fields of the GameState and of its characters
GameVars == <<side, selected, timeRemaining, lanternSide, gameStatus, moveHistory>>

\* the state of the InputHandler and of the tween manager
SceneVars == <<inputEnabled, selectedCharacters, pending>>

SetGameState(g) ==
    /\ side' = g.side
    /\ selected' = g.selected
    /\ timeRemaining' = g.timeRemaining
    /\ lanternSide' = g.lanternSide
    /\ gameStatus' = g.gameStatus
    /\ moveHistory' = g.moveHistory

Init ==
    /\ side = NewGameState.side
    /\ selected = NewGameState.selected
    /\ timeRemaining = NewGameState.timeRemaining
    /\ lanternSide = NewGameState.lanternSide
    /\ gameStatus = NewGameState.gameStatus
    /\ moveHistory = NewGameState.moveHistory
    /\ inputEnabled = TRUE
    /\ selectedCharacters = <<>>
    /\ pending = <<>>
    /\ lastOp = "new"
    /\ lastArg = <<>>
    /\ lastResult = NoResult

ExecuteCrossing ==
    \E characters \in Selections :
        \E r \in {executeCrossing(GS, characters)} :
            /\ r.result.success => Len(moveHistory) < MaxMoves
            /\ SetGameState(r.state)
            /\ UNCHANGED SceneVars
            /\ lastOp' = "executeCrossing"
            /\ lastArg' = characters
            /\ lastResult' = r.result

ToggleSelection ==
    \E c \in Characters :
        /\ \E g \in {toggleSelection(GS, c)} :
              /\ Cardinality({d \in Characters : g.selected[d]}) <= MaxSelected
              /\ SetGameState(g)
        /\ UNCHANGED SceneVars
        /\ lastOp' = "toggleSelection"
        /\ lastArg' = <<>>
        /\ lastResult' = NoResult

Reset ==
    /\ \E g \in {reset(GS)} : SetGameState(g)
    /\ UNCHANGED SceneVars
    /\ lastOp' = "reset"
    /\ lastArg' = <<>>
    /\ lastResult' = NoResult

Next == ExecuteCrossing \/ ToggleSelection \/ Reset

Spec == Init /\ [][Next]_vars

(***************************************************************************)
(* The scene: InputHandler, MainGameScene.handleLanternReturn and the      *)
(* animated path of executeCrossing.                                       *)
(***************************************************************************)
\* GameState.getSelectedCharacters, in roster order
RECURSIVE FilterSelected(_, _)
FilterSelected(g, c) ==
    IF c > Len(Names) THEN <<>>
    ELSE (IF g.selected[c] THEN <<c>> ELSE <<>>) \o FilterSelected(g, c + 1)

getSelectedCharacters(g) == FilterSelected(g, 1)

\* InputHandler.clearAllSelections: the GameState it leaves
clearAllSelections(g) ==
    [g EXCEPT !.selected = [c \in Characters |-> FALSE]]

\* BridgeController.executeCrossing(characters, scene): the result it
\* returns and, when the move is valid, the animation animateCrossing
\* starts.  The GameState is not written before the animation completes.
executeCrossingScene(g, characters) ==
    LET validation == validateMove(g, characters)
    IN  IF ~validation.valid
        THEN [started |-> <<>>,
              result |-> [success |-> FALSE, errors |-> validation.errors]]
        ELSE LET crossingTime == MaxCrossingTime(characters)
                 fromSide == g.side[characters[1]]
                 toSide == IF fromSide = "left" THEN "right" ELSE "left"
                 result == [success |-> TRUE,
                            timeUsed |-> crossingTime,
                            fromSide |-> fromSide,
                            toSide |-> toSide,
                            gameStatus |-> g.gameStatus]
             IN  [started |-> <<[characters |-> characters,
                                 fromSide |-> fromSide,
                                 toSide |-> toSide,
                                 crossingTime |-> crossingTime,
                                 returned |-> result]>>,
                  result |-> result]

\* MainGameScene.validateLanternReturn
validateLanternReturn(g, c) ==
    IF g.side[c] # g.lanternSide THEN FALSE
    ELSE LET otherSide == IF g.lanternSide = "left" THEN "right" ELSE "left"
         IN  Len(getCharactersOnSide(g, otherSide)) > 0

\* the length of the timeline animateCrossing builds, in milliseconds, its
\* tweens playing one after the other: per character two tweens of
\* animationDuration / 2, the first delayed by index * 200, then two tweens
\* of animationDuration / 2 for the lantern and one of animationDuration
\* for its label
TimelineDuration(characters) ==
    LET n == Len(characters)
    IN  n * 2 * (2000 \div 2) + 200 * ((n * (n - 1)) \div 2)
        + 2 * (2000 \div 2) + 2000

\* the animation pending[k] can be the next to complete: no animation
\* started before it is shorter or as long
CanComplete(k) ==
    \A i \in 1..(k - 1) :
        TimelineDuration(pending[i].characters) > TimelineDuration(pending[k].characters)

\* pending without its k-th animation
RemoveAt(seq, k) ==
    [i \in 1..(Len(seq) - 1) |-> IF i < k THEN seq[i] ELSE seq[i + 1]]

\* InputHandler.handleCharacterSelection(character)
HandleCharacterSelection ==
    \E c \in Characters :
        /\ inputEnabled
        /\ \E g \in {toggleSelection(GS, c)} :
              /\ SetGameState(g)
              /\ selectedCharacters' = getSelectedCharacters(g)
        /\ UNCHANGED <<inputEnabled, pending>>
        /\ lastOp' = "handleCharacterSelection"
        /\ lastArg' = <<>>
        /\ lastResult' = NoResult

\* InputHandler.handleCrossingAction()
HandleCrossingAction ==
    /\ inputEnabled
    /\ \E r \in {executeCrossingScene(GS, selectedCharacters)} :
          /\ r.result.success => Len(moveHistory) + Len(pending) < MaxSceneMoves
          /\ IF r.result.success
             THEN /\ pending' = pending \o r.started
                  /\ inputEnabled' = FALSE
                  /\ SetGameState(clearAllSelections(GS))
                  /\ selectedCharacters' = <<>>
             ELSE UNCHANGED <<GameVars, SceneVars>>
          /\ lastOp' = "handleCrossingAction"
          /\ lastArg' = selectedCharacters
          /\ lastResult' = r.result

\* MainGameScene.handleLanternReturn(character)
HandleLanternReturn ==
    \E c \in Characters :
        /\ validateLanternReturn(GS, c)
        /\ \E r \in {executeCrossingScene(GS, <<c>>)} :
              /\ r.result.success
                    => /\ Len(moveHistory) + Len(pending) < MaxSceneMoves
                       /\ Len(pending) < MaxPending
              /\ IF r.result.success
                 THEN /\ pending' = pending \o r.started
                      /\ inputEnabled' = FALSE
                 ELSE UNCHANGED <<inputEnabled, pending>>
              /\ UNCHANGED <<GameVars, selectedCharacters>>
              /\ lastOp' = "handleLanternReturn"
              /\ lastArg' = <<c>>
              /\ lastResult' = r.result

\* the onComplete callback of a timeline
OnComplete ==
    \E k \in 1..Len(pending) :
        /\ CanComplete(k)
        /\ \E p \in {pending[k]} :
              /\ SetGameState(completeCrossing(GS, p.characters, p.fromSide,
                                               p.toSide, p.crossingTime))
              /\ lastArg' = p.characters
              /\ lastResult' = p.returned
        /\ inputEnabled' = TRUE
        /\ pending' = RemoveAt(pending, k)
        /\ UNCHANGED selectedCharacters
        /\ lastOp' = "onComplete"

\* an updateGameTimer that counts a minute down
UpdateGameTimer_CountsDown ==
    /\ timeRemaining' = IF gameStatus = "playing" /\ timeRemaining > 0
                        THEN timeRemaining - 1 ELSE timeRemaining
    /\ UNCHANGED <<side, selected, lanternSide, gameStatus, moveHistory>>
    /\ UNCHANGED SceneVars
    /\ lastOp' = "updateGameTimer"
    /\ lastArg' = <<>>
    /\ lastResult' = NoResult

\* MainGameScene.updateGameTimer(), the callback of the one-second timer
\* event: while the game is 'playing' it redraws the timer text and calls
\* checkGameEndConditions, which does nothing then; no field is assigned
UpdateGameTimer ==
    /\ UNCHANGED GameVars
    /\ UNCHANGED SceneVars
    /\ lastOp' = "updateGameTimer"
    /\ lastArg' = <<>>
    /\ lastResult' = NoResult

NextScene ==
    \/ HandleCharacterSelection
    \/ HandleCrossingAction
    \/ HandleLanternReturn
    \/ OnComplete
    \/ UpdateGameTimer

SpecScene == Init /\ [][NextScene]_vars

(***************************************************************************)
(* The queries: sessions of accepted crossings, selection changes and      *)
(* resets in which validateMove and getAvailableMoves are called between   *)
(* the moves.  A query hands its result to the caller; what it does to the *)
(* program's state is all that is kept.                                    *)
(***************************************************************************)
\* the selections in every order
Orderings ==
    {s : s \in UNION {{t \in [1..n -> Characters] :
                          \A i, j \in 1..n : i # j => t[i] # t[j]}
                     : n \in 0..MaxSelection}}

\* executeCrossing(characters) past its early return
AcceptedCrossing == ExecuteCrossing /\ lastResult'.success

\* a validateMove that clears the selected flags of what it was handed
ValidateMove_Deselects ==
    \E characters \in Selections :
        /\ selected' = [c \in Characters |->
                           IF \E i \in 1..Len(characters) : characters[i] = c
                           THEN FALSE ELSE selected[c]]
        /\ UNCHANGED <<side, timeRemaining, lanternSide, gameStatus, moveHistory>>
        /\ UNCHANGED SceneVars
        /\ lastOp' = "validateMove"
        /\ lastArg' = <<>>
        /\ lastResult' = NoResult

\* BridgeController.validateMove(characters), with validateLanternMovement:
\* they read the GameState and build an errors list, and assign no field
ValidateMove ==
    \E characters \in Selections :
        /\ validateMove(GS, characters).valid \in BOOLEAN
        /\ UNCHANGED GameVars
        /\ UNCHANGED SceneVars
        /\ lastOp' = "validateMove"
        /\ lastArg' = <<>>
        /\ lastResult' = NoResult

\* BridgeController.getAvailableMoves(): it filters the roster twice and
\* builds the moves list, and assigns no field
GetAvailableMoves ==
    /\ Len(getAvailableMoves(GS)) >= 0
    /\ UNCHANGED GameVars
    /\ UNCHANGED SceneVars
    /\ lastOp' = "getAvailableMoves"
    /\ lastArg' = <<>>
    /\ lastResult' = NoResult

NextQueries ==
    \/ AcceptedCrossing
    \/ ToggleSelection
    \/ Reset
    \/ ValidateMove
    \/ GetAvailableMoves

SpecQueries == Init /\ [][NextQueries]_vars

(***************************************************************************)
(* The scene with its Reset Game button.  handleResetGameClick starts a    *)
(* fade-out tween whose onComplete callback is performGameRestart; the     *)
(* tween is kept in pending with the timelines of the crossings, in the    *)
(* order they were started.                                                *)
(***************************************************************************)
\* the tween restartGameWithTransition adds: duration 300, onComplete
\* calling performGameRestart
FadeOut == [onComplete |-> "performGameRestart", duration |-> 300]

\* a member of pending is the timeline of a crossing, not a fade-out
IsTimeline(p) == "characters" \in DOMAIN p

DurationOf(p) == IF IsTimeline(p) THEN TimelineDuration(p.characters) ELSE p.duration

\* pending[k] can be the next to complete: nothing started before it is
\* shorter or as long
CanCompleteTween(k) ==
    \A i \in 1..(k - 1) : DurationOf(pending[i]) > DurationOf(pending[k])

\* the crossers of the timelines among tweens
RECURSIVE CrossersOf(_)
CrossersOf(tweens) ==
    IF tweens = <<>> THEN <<>>
    ELSE (IF IsTimeline(tweens[1]) THEN tweens[1].characters ELSE <<>>)
         \o CrossersOf(Tail(tweens))

\* this.tweens.killAll() followed by this.scene.restart(): every tween and
\* timeline of the scene is stopped and removed, and a stopped one never
\* runs its onComplete callback
killAll(tweens) == <<>>

\* MainGameScene.handleResetGameClick -> restartGameWithTransition
HandleResetGameClick ==
    /\ Len(pending) < MaxPending
    /\ pending' = Append(pending, FadeOut)
    /\ UNCHANGED <<GameVars, inputEnabled, selectedCharacters>>
    /\ lastOp' = "handleResetGameClick"
    /\ lastArg' = <<>>
    /\ lastResult' = NoResult

\* a performGameRestart that resets the GameState and the selection but
\* leaves the other animations playing
PerformGameRestart_KeepsTweens ==
    \E k \in 1..Len(pending) :
        /\ ~IsTimeline(pending[k])
        /\ CanCompleteTween(k)
        /\ \E g \in {clearAllSelections(reset(GS))} : SetGameState(g)
        /\ selectedCharacters' = <<>>
        /\ inputEnabled' = TRUE
        /\ pending' = RemoveAt(pending, k)
        /\ lastOp' = "performGameRestart"
        /\ lastArg' = CrossersOf(pending)
        /\ lastResult' = NoResult

\* MainGameScene.performGameRestart, the onComplete callback of the
\* fade-out: killAll, gameState.reset(), clearAllSelections(),
\* setInputEnabled(true), scene.restart().  The restarted scene runs
\* create(), whose new GameState and InputHandler are in the state reset()
\* and the constructor leave.  lastArg keeps the crossers whose timelines
\* were stopped.
PerformGameRestart ==
    \E k \in 1..Len(pending) :
        /\ ~IsTimeline(pending[k])
        /\ CanCompleteTween(k)
        /\ \E g \in {clearAllSelections(reset(GS))} : SetGameState(g)
        /\ selectedCharacters' = <<>>
        /\ inputEnabled' = TRUE
        /\ pending' = killAll(pending)
        /\ lastOp' = "performGameRestart"
        /\ lastArg' = CrossersOf(pending)
        /\ lastResult' = NoResult

\* the onComplete callback of a timeline, among tweens of both kinds
TimelineComplete ==
    \E k \in 1..Len(pending) :
        /\ IsTimeline(pending[k])
        /\ CanCompleteTween(k)
        /\ \E p \in {pending[k]} :
              /\ SetGameState(completeCrossing(GS, p.characters, p.fromSide,
                                               p.toSide, p.crossingTime))
              /\ lastArg' = p.characters
              /\ lastResult' = p.returned
        /\ inputEnabled' = TRUE
        /\ pending' = RemoveAt(pending, k)
        /\ UNCHANGED selectedCharacters
        /\ lastOp' = "onComplete"

NextRestart ==
    \/ HandleCharacterSelection
    \/ HandleCrossingAction
    \/ HandleLanternReturn
    \/ TimelineComplete
    \/ HandleResetGameClick
    \/ PerformGameRestart

SpecRestart == Init /\ [][NextRestart]_vars

(***************************************************************************)
(* One session: from construction (or reset() to the same state) the       *)
(* player submits valid moves only, executeCrossing(characters) applies    *)
(* each one.  Nothing caps the number of moves here: the session is as     *)
(* long as the code lets it be.  FairSession is the session in which a     *)
(* valid move keeps being submitted for as long as one exists.             *)
(***************************************************************************)
SubmitValidMove ==
    \E characters \in Selections :
        \E r \in {executeCrossing(GS, characters)} :
            /\ r.result.success
            /\ SetGameState(r.state)
            /\ UNCHANGED SceneVars
            /\ lastOp' = "executeCrossing"
            /\ lastArg' = characters
            /\ lastResult' = r.result

NextSession == SubmitValidMove \/ Reset

SpecSession == Init /\ [][NextSession]_vars

FairSession == Init /\ [][SubmitValidMove]_vars /\ WF_vars(SubmitValidMove)

\* MainGameScene.getPerformanceRating, shown on the victory screen
getPerformanceRating(g) ==
    IF g.timeRemaining >= 10 THEN "Outstanding! You solved it with time to spare!"
    ELSE IF g.timeRemaining >= 5 THEN "Great job! Well planned execution!"
    ELSE IF g.timeRemaining >= 2 THEN "Good work! That was close!"
    ELSE "Phew! Just made it in time!"

(***************************************************************************)
(* Vocabulary of the properties.                                           *)
(***************************************************************************)
AllOnRight == \A c \in Characters : side[c] = "right"

Opposite(s) == IF s = "left" THEN "right" ELSE "left"

\* a step that is an accepted executeCrossing call
Accepted == lastOp' = "executeCrossing" /\ lastResult'.success

RECURSIVE SumTimeUsed(_)
SumTimeUsed(h) ==
    IF h = <<>> THEN 0 ELSE h[1].timeUsed + SumTimeUsed(Tail(h))

\* the largest crossing time among the characters of a selection
Slowest(characters) ==
    CHOOSE t \in {CrossingTimes[characters[i]] : i \in 1..Len(characters)} :
        \A i \in 1..Len(characters) : CrossingTimes[characters[i]] <= t

Floor0(t) == IF t <= 0 THEN 0 ELSE t

(***************************************************************************)
(* C1. A selection that validateMove rejects: executeCrossing returns      *)
(* success=false with exactly validateMove's error list, and no            *)
(* character's side or selected flag, nor lanternSide, timeRemaining,      *)
(* gameStatus or moveHistory changes.                                      *)
(***************************************************************************)
C1_RejectedMoveChangesNothing ==
    [][lastOp' = "executeCrossing"
        => \A validation \in {validateMove(GS, lastArg')} :
            ~validation.valid
            => /\ lastResult' = [success |-> FALSE, errors |-> validation.errors]
               /\ UNCHANGED GameVars]_vars

\* a call rejected for two reasons, in a session that has moves and a selection
C1_Witness ==
    /\ lastOp = "executeCrossing"
    /\ ~lastResult.success
    /\ Len(lastResult.errors) >= 2
    /\ moveHistory # <<>>
    /\ \E c \in Characters : selected[c]

(***************************************************************************)
(* C2. validateMove(characters) is valid exactly when the selection holds  *)
(* 1 or 2 characters, all on one side, that side is lanternSide, and       *)
(* gameStatus is "playing" (for the selection in any order).  The state    *)
(* after a rejected call holds the GameState of the state the call was     *)
(* made in (C1), so validateMove is evaluated in the other states only.    *)
(***************************************************************************)
C2_ValidIffRules ==
    \/ lastOp = "executeCrossing" /\ ~lastResult.success
    \/ \A sel \in Orderings :
          validateMove(GS, sel).valid
          <=> /\ Len(sel) \in {1, 2}
              /\ Cardinality(SidesOf(GS, sel)) = 1
              /\ \A i \in 1..Len(sel) : side[sel[i]] = lanternSide
              /\ gameStatus = "playing"

\* a state with the lantern on the right, characters on both sides, where a
\* crossing of two was just accepted and a move is still valid
C2_Witness ==
    /\ lastOp = "executeCrossing"
    /\ lastResult.success
    /\ Len(lastArg) = 2
    /\ lanternSide = "right"
    /\ \E c \in Characters : side[c] = "left"
    /\ \E sel \in Orderings : validateMove(GS, sel).valid

(***************************************************************************)
(* C3. Between calls, gameStatus is "won" exactly when all four            *)
(* characters are on the right side.                                       *)
(***************************************************************************)
C3_WonIffAllOnRight ==
    gameStatus = "won" <=> AllOnRight

C3_Witness ==
    gameStatus = "won" /\ AllOnRight /\ lastOp = "executeCrossing"

(***************************************************************************)
(* C4. gameStatus is "lost" exactly when timeRemaining is 0 or less and    *)
(* not all characters are on the right; no state is "playing" with         *)
(* timeRemaining 0.                                                        *)
(***************************************************************************)
C4_LostIffTimeUpAndNotAllOnRight ==
    /\ gameStatus = "lost" <=> (timeRemaining <= 0 /\ ~AllOnRight)
    /\ ~(gameStatus = "playing" /\ timeRemaining = 0)

\* the timer brought to exactly 0 with characters left behind
C4_Witness ==
    /\ gameStatus = "lost"
    /\ timeRemaining = 0
    /\ SumTimeUsed(moveHistory) = InitialTime
    /\ ~AllOnRight

(***************************************************************************)
(* C5. gameStatus is "won" only if the crossings of the session took at    *)
(* most the 17 minutes of the limit in all.                                *)
(***************************************************************************)
C5_WonOnlyWithinTimeLimit ==
    gameStatus = "won" => SumTimeUsed(moveHistory) <= InitialTime

(***************************************************************************)
(* C6. Tie-break: a crossing that puts the last character on the right     *)
(* and brings timeRemaining to exactly 0 leaves gameStatus "won".          *)
(***************************************************************************)
C6_TieBreakIsWin ==
    [][(Accepted /\ timeRemaining - lastResult'.timeUsed = 0 /\ AllOnRight')
        => gameStatus' = "won" /\ lastResult'.gameStatus = "won"]_vars

C6_Witness ==
    /\ lastOp = "executeCrossing"
    /\ lastResult.success
    /\ AllOnRight
    /\ timeRemaining = 0
    /\ SumTimeUsed(moveHistory) = InitialTime

C8_TimeUsedIsSlowest ==
    [][Accepted
        => /\ lastResult'.timeUsed = Slowest(lastArg')
           /\ timeRemaining' = Floor0(timeRemaining - Slowest(lastArg'))]_vars

\* "You" (1) and "Professor" (10) crossed together from the fresh state
C8_Witness ==
    /\ lastOp = "executeCrossing"
    /\ lastResult.success
    /\ lastArg = <<1, 4>>
    /\ lastResult.timeUsed = 10
    /\ timeRemaining = 7

(***************************************************************************)
(* C9. After an accepted crossing every selected character is on the side  *)
(* opposite to the one it started from, is no longer selected, and the     *)
(* lantern is on that destination side.                                    *)
(***************************************************************************)
C9_CrossersAndLanternOnDestination ==
    [][Accepted
        => LET toSide == Opposite(side[lastArg'[1]])
           IN  /\ \A i \in 1..Len(lastArg') :
                    /\ side'[lastArg'[i]] = Opposite(side[lastArg'[i]])
                    /\ side'[lastArg'[i]] = toSide
                    /\ ~selected'[lastArg'[i]]
               /\ lanternSide' = toSide
               /\ lastResult'.toSide = toSide]_vars

\* two characters crossed back to the left while another stayed selected
C9_Witness ==
    /\ lastOp = "executeCrossing"
    /\ lastResult.success
    /\ Len(lastArg) = 2
    /\ lastResult.toSide = "left"
    /\ lanternSide = "left"
    /\ \E c \in Characters : selected[c]

(***************************************************************************)
(* C10. An accepted crossing of cost c leaves timeRemaining at             *)
(* max(0, timeRemaining - c); without a reset timeRemaining never grows,   *)
(* and it is always within 0..17.                                          *)
(***************************************************************************)
C10_TimerFlooredAndMonotonic ==
    /\ timeRemaining \in 0..InitialTime
    /\ [][/\ timeRemaining' \in 0..InitialTime
          /\ lastOp' # "reset" => timeRemaining' <= timeRemaining
          /\ Accepted => timeRemaining' = Floor0(timeRemaining - lastResult'.timeUsed)]_vars

\* a crossing that cost more than the time that was left
C10_Witness ==
    /\ lastOp = "executeCrossing"
    /\ lastResult.success
    /\ timeRemaining = 0
    /\ SumTimeUsed(moveHistory) > InitialTime

(***************************************************************************)
(* C11. After reset(), whatever crossings were accepted or rejected        *)
(* before, the GameState is exactly the one a new game starts with:        *)
(* timeRemaining 17, lantern left, 'playing', no recorded move, and the    *)
(* four characters of the roster all on the left and unselected.           *)
(***************************************************************************)
C11_ResetRestoresInitialState ==
    lastOp = "reset"
        => /\ GS = NewGameState
           /\ timeRemaining = 17
           /\ lanternSide = "left"
           /\ gameStatus = "playing"
           /\ moveHistory = <<>>
           /\ DOMAIN side = 1..4
           /\ \A c \in Characters : side[c] = "left" /\ ~selected[c]

\* a reset has just run
C11_Witness ==
    /\ lastOp = "reset"
    /\ Len(getCharactersOnSide(GS, "left")) = Len(Names)

(***************************************************************************)
(* C12. When executeCrossing returns success, the gameStatus in its result *)
(* is the gameStatus of the GameState that results from that crossing,     *)
(* without a scene (the crossing is applied inside the call) and with a    *)
(* scene (the crossing is applied by the animation's onComplete).          *)
(***************************************************************************)
C12_ResultCarriesResultingStatus ==
    lastOp \in {"executeCrossing", "onComplete"} /\ lastResult.success
        => lastResult.gameStatus = gameStatus

(***************************************************************************)
(* C13. Whenever executeCrossing has returned success, the whole crossing  *)
(* is applied at the moment it returns: the characters and the lantern are *)
(* on the destination side, the time is charged and the move is recorded.  *)
(***************************************************************************)
C13_SuccessMeansApplied ==
    lastOp \in {"executeCrossing", "handleCrossingAction", "handleLanternReturn"}
      /\ lastResult.success
        => /\ \A i \in 1..Len(lastArg) : side[lastArg[i]] = lastResult.toSide
           /\ lanternSide = lastResult.toSide
           /\ moveHistory # <<>>
           /\ moveHistory[Len(moveHistory)]
                 = [characters |-> [i \in 1..Len(lastArg) |-> Names[lastArg[i]]],
                    timeUsed |-> lastResult.timeUsed,
                    fromSide |-> lastResult.fromSide,
                    toSide |-> lastResult.toSide]
           /\ SumTimeUsed(moveHistory) >= InitialTime - timeRemaining

(***************************************************************************)
(* C14. At most one move is in flight: from the start of an animated       *)
(* crossing to its completion callback no other crossing is validated and  *)
(* started through handleCrossingAction or handleLanternReturn, so two     *)
(* completion callbacks are never pending at once.                         *)
(***************************************************************************)
C14_AtMostOneMoveInFlight ==
    /\ Len(pending) <= 1
    /\ pending # <<>> => ~inputEnabled

(***************************************************************************)
(* C20. After any sequence of handleCharacterSelection calls at most 2     *)
(* characters are selected.                                                *)
(***************************************************************************)
C20_AtMostTwoSelected ==
    Cardinality({c \in Characters : selected[c]}) <= 2

\* the characters of a selection, as a set
SetOf(characters) == {characters[i] : i \in 1..Len(characters)}

(***************************************************************************)
(* C15. getAvailableMoves returns exactly the legal moves: validateMove    *)
(* accepts every selection it returns, and every selection of one or two   *)
(* distinct characters that validateMove accepts is returned, as a set,    *)
(* exactly once; in every reachable state, 'won' and 'lost' included.      *)
(***************************************************************************)
C15_AvailableMovesAreTheLegalMoves ==
    LET moves == getAvailableMoves(GS)
    IN  /\ \A k \in 1..Len(moves) : validateMove(GS, moves[k]).valid
        /\ \A sel \in Orderings :
              Len(sel) \in 1..2 /\ validateMove(GS, sel).valid
                  => Cardinality({k \in 1..Len(moves) : SetOf(moves[k]) = SetOf(sel)}) = 1

(***************************************************************************)
(* C16. With n characters on the lantern's side getAvailableMoves returns  *)
(* n + n(n-1)/2 moves: each of those characters alone and each unordered   *)
(* pair of them once, nothing from the other side; 10 moves in the initial *)
(* state.                                                                  *)
(***************************************************************************)
C16_AvailableMovesCount ==
    LET moves == getAvailableMoves(GS)
        here == SetOf(getCharactersOnSide(GS, lanternSide))
        n == Cardinality(here)
    IN  /\ Len(moves) = n + (n * (n - 1)) \div 2
        /\ {SetOf(moves[k]) : k \in 1..Len(moves)}
               = {m \in SUBSET here : Cardinality(m) \in 1..2}
        /\ \A k \in 1..Len(moves) : Len(moves[k]) = Cardinality(SetOf(moves[k]))
        /\ GS = NewGameState => Len(moves) = 10

\* three characters and the lantern on the right, one character on the left
C16_Witness ==
    /\ lanternSide = "right"
    /\ Len(getCharactersOnSide(GS, "right")) = 3
    /\ Len(getAvailableMoves(GS)) = 6

\* the message of the lantern rule for a lantern on side l and characters on side c
LanternMessage(l, c) ==
    "Lantern is on the " \o l \o " side, but selected characters are on the "
        \o c \o " side"

\* the messages of the lantern rule
LanternMessages ==
    {LanternMessage(l, c) : l \in {"left", "right"}, c \in {"left", "right"}}

\* the rule a message of validateMove belongs to, 0 for a message of no rule
RuleOf(message) ==
    IF message = "Maximum 2 characters can cross together" THEN 1
    ELSE IF message = "All selected characters must be on the same side" THEN 2
    ELSE IF message \in LanternMessages THEN 3
    ELSE IF message = "Game is not in playing state" THEN 4
    ELSE 0

C18_EmptySelectionOneReason ==
    /\ validateMove(GS, <<>>)
          = [valid |-> FALSE, errors |-> <<"No characters selected for crossing">>]
    /\ lastOp = "executeCrossing" /\ lastArg = <<>>
          => lastResult = [success |-> FALSE,
                           errors |-> <<"No characters selected for crossing">>]

\* the empty selection handed in after the game was lost
C18_Witness ==
    /\ lastOp = "executeCrossing"
    /\ lastArg = <<>>
    /\ gameStatus = "lost"
    /\ Len(lastResult.errors) = 1

\* some sequence of at most depth accepted crossings takes g to 'won' with
\* the recorded crossings adding up to at most InitialTime
RECURSIVE CanWin(_, _)
CanWin(g, depth) ==
    \/ g.gameStatus = "won" /\ SumTimeUsed(g.moveHistory) <= InitialTime
    \/ /\ depth > 0
       /\ \E characters \in Selections :
             \E r \in {executeCrossing(g, characters)} :
                 r.result.success /\ CanWin(r.state, depth - 1)

(***************************************************************************)
(* C19. The puzzle is solvable: from the initial state (a new game, or a   *)
(* game put back by reset) some sequence of accepted crossings ends with   *)
(* gameStatus 'won'; one such sequence fits in the 17 minutes.             *)
(***************************************************************************)
C19_PuzzleIsSolvable ==
    lastOp \in {"new", "reset"} => GS = NewGameState /\ CanWin(GS, MaxMoves)

\* the game won by five accepted crossings, the last one by two characters
C19_Witness ==
    /\ gameStatus = "won"
    /\ Len(moveHistory) = 5
    /\ \A k \in 1..Len(moveHistory) :
          moveHistory[k].toSide = (IF k % 2 = 1 THEN "right" ELSE "left")
    /\ SumTimeUsed(moveHistory) <= InitialTime

(***************************************************************************)
(* C21. An accepted crossing appends exactly one record to moveHistory:    *)
(* the names of the crossing characters, the time used, the side they      *)
(* left and the side they reached.  The records already there stay as      *)
(* they are; a rejected crossing and a selection change append nothing;    *)
(* only reset() empties the history.                                       *)
(***************************************************************************)
C21_AcceptedMoveRecordedOnce ==
    [][/\ Accepted
           => moveHistory'
                = Append(moveHistory,
                         [characters |-> [i \in 1..Len(lastArg') |-> Names[lastArg'[i]]],
                          timeUsed |-> lastResult'.timeUsed,
                          fromSide |-> side[lastArg'[1]],
                          toSide |-> Opposite(side[lastArg'[1]])])
       /\ ~Accepted /\ lastOp' # "reset" => moveHistory' = moveHistory
       /\ lastOp' = "reset" => moveHistory' = <<>>]_vars

\* the third crossing of a session has been recorded
C21_Witness ==
    /\ lastOp = "executeCrossing"
    /\ lastResult.success
    /\ Len(moveHistory) = 3
    /\ moveHistory[3].characters = [i \in 1..Len(lastArg) |-> Names[lastArg[i]]]
    /\ moveHistory[3].timeUsed = lastResult.timeUsed

(***************************************************************************)
(* C22. A character's side changes only by an accepted crossing that       *)
(* includes it, or by reset(): an accepted crossing leaves the side and    *)
(* the selected flag of every character outside the selection as they      *)
(* were, and toggleSelection changes no side.                              *)
(***************************************************************************)
C22_SideChangesOnlyByOwnCrossing ==
    [][/\ Accepted
           => \A c \in Characters \ SetOf(lastArg') :
                 side'[c] = side[c] /\ selected'[c] = selected[c]
       /\ lastOp' = "toggleSelection" => side' = side
       /\ \A c \in Characters :
             side'[c] # side[c]
                 => \/ lastOp' = "reset"
                    \/ Accepted /\ c \in SetOf(lastArg')]_vars

\* one character crossed back while a selected character stayed on the right
C22_Witness ==
    /\ lastOp = "executeCrossing"
    /\ lastResult.success
    /\ Len(lastArg) = 1
    /\ lanternSide = "left"
    /\ \E c \in Characters \ SetOf(lastArg) : selected[c] /\ side[c] = "right"

(***************************************************************************)
(* C23. validateMove and getAvailableMoves are pure queries: a call, in    *)
(* any state and with any selection, changes no character's side or        *)
(* selected flag, nor lanternSide, timeRemaining, gameStatus or            *)
(* moveHistory.                                                            *)
(***************************************************************************)
C23_QueriesChangeNothing ==
    [][lastOp' \in {"validateMove", "getAvailableMoves"}
          => /\ side' = side
             /\ selected' = selected
             /\ lanternSide' = lanternSide
             /\ timeRemaining' = timeRemaining
             /\ gameStatus' = gameStatus
             /\ moveHistory' = moveHistory]_vars

\* a query made after the game was lost, with a character still selected
C23_Witness ==
    /\ lastOp \in {"validateMove", "getAvailableMoves"}
    /\ gameStatus = "lost"
    /\ \E c \in Characters : selected[c]
    /\ moveHistory # <<>>

\* the states in which checkVictoryCondition is called: the state between
\* two calls of the engine, and for every crossing that would be accepted
\* now the state in which updateTimer calls it, the characters and the
\* lantern moved and the time charged
VictoryCheckStates ==
    {GS} \cup
    {updateTimerBeforeCheck(
         moveLantern(MoveEach(GS, characters, Opposite(lanternSide)),
                     Opposite(lanternSide)),
         MaxCrossingTime(characters))
     : characters \in {sel \in Selections : validateMove(GS, sel).valid}}

(***************************************************************************)
(* C24. checkVictoryCondition() is idempotent: a second call right after   *)
(* the first returns the same boolean and leaves the same gameStatus.  It  *)
(* returns true and sets 'won' exactly when all characters are on the      *)
(* right, and otherwise returns false and changes nothing.                 *)
(***************************************************************************)
C24_CheckVictoryIdempotent ==
    \A g \in VictoryCheckStates :
        LET first == checkVictoryConditionReturns(g)
            g1 == checkVictoryCondition(g)
            second == checkVictoryConditionReturns(g1)
            g2 == checkVictoryCondition(g1)
        IN  /\ second = first
            /\ g2 = g1
            /\ first <=> \A c \in Characters : g.side[c] = "right"
            /\ first => g1 = [g EXCEPT !.gameStatus = "won"]
            /\ ~first => g1 = g

\* one crossing away from a state in which the call turns 'lost' into 'won'
C24_Witness ==
    /\ gameStatus = "playing"
    /\ \E g \in VictoryCheckStates :
          /\ g.gameStatus = "lost"
          /\ checkVictoryConditionReturns(g)
          /\ checkVictoryCondition(g).gameStatus = "won"

(***************************************************************************)
(* C25. A new GameState has the four characters You (1), Lab Assistant     *)
(* (2), Janitor (5) and Professor (10) in that order, all on the left and  *)
(* unselected, timeRemaining 17, the lantern on the left, status           *)
(* 'playing' and an empty history; in every reachable state the roster is  *)
(* still these four characters with these names and crossing times.        *)
(***************************************************************************)
C25_FreshStateAndFixedRoster ==
    /\ lastOp = "new"
          => /\ side = <<"left", "left", "left", "left">>
             /\ selected = <<FALSE, FALSE, FALSE, FALSE>>
             /\ timeRemaining = 17
             /\ lanternSide = "left"
             /\ gameStatus = "playing"
             /\ moveHistory = <<>>
    /\ Names = <<"You", "Lab Assistant", "Janitor", "Professor">>
    /\ CrossingTimes = <<1, 2, 5, 10>>
    /\ DOMAIN side = 1..4
    /\ DOMAIN selected = 1..4

\* the game as it is constructed
C25_Witness ==
    /\ lastOp = "new"
    /\ GS = NewGameState
    /\ Len(Names) = 4

\* what a caller may hand to moveTo and moveLantern
SideArguments == {"left", "right", "Left", "RIGHT", "middle", ""}

(***************************************************************************)
(* C28. moveTo(side) and moveLantern(side) set the side when the argument  *)
(* is 'left' or 'right' and do nothing for any other argument; every       *)
(* character's side and lanternSide are always 'left' or 'right'.          *)
(***************************************************************************)
C28_SidesAlwaysLeftOrRight ==
    /\ \A c \in Characters : side[c] \in {"left", "right"}
    /\ lanternSide \in {"left", "right"}
    /\ \A s \in SideArguments :
          /\ \A c \in Characters :
                moveTo(GS, c, s)
                    = IF s \in {"left", "right"} THEN [GS EXCEPT !.side[c] = s] ELSE GS
          /\ moveLantern(GS, s)
                = IF s \in {"left", "right"} THEN [GS EXCEPT !.lanternSide = s] ELSE GS

\* characters on both sides, the lantern on the right
C28_Witness ==
    /\ lanternSide = "right"
    /\ \E c, d \in Characters : side[c] = "left" /\ side[d] = "right"
    /\ moveTo(GS, 1, "middle") = GS
    /\ moveLantern(GS, "middle") = GS
    /\ moveLantern(GS, "left").lanternSide = "left"

\* the denominators of the fractional times looked at
TimeDenominators == {1, 2, 4, 8}

\* the decimal digits
Digits == <<"0", "1", "2", "3", "4", "5", "6", "7", "8", "9">>

(***************************************************************************)
(* C29. getFormattedTime() renders timeRemaining as M:SS, M the whole      *)
(* minutes and SS the whole seconds that remain, in two digits: 7 gives    *)
(* "7:00" and 6.5 gives "6:30".  In every state reached through crossings  *)
(* it is the integer timeRemaining followed by ":00".  (Fractions are      *)
(* taken from the halves, quarters and eighths of a minute above the       *)
(* state's timeRemaining.)                                                 *)
(***************************************************************************)
C29_FormattedTime ==
    /\ getFormattedTime(GS) = ToString(timeRemaining) \o ":00"
    /\ getFormattedTimeOf(7, 1) = "7:00"
    /\ getFormattedTimeOf(13, 2) = "6:30"
    /\ \A d \in TimeDenominators : \A k \in 0..(d - 1) :
          LET secs == (k * 60) \div d
          IN  getFormattedTimeOf(timeRemaining * d + k, d)
                = ToString(timeRemaining) \o ":"
                    \o Digits[(secs \div 10) + 1] \o Digits[(secs % 10) + 1]

\* seven minutes left after the Professor's crossing
C29_Witness ==
    /\ timeRemaining = 7
    /\ moveHistory # <<>>
    /\ getFormattedTime(GS) = "7:00"
    /\ getFormattedTimeOf(timeRemaining * 8 + 1, 8) = "7:07"

(***************************************************************************)
(* C30. In every reachable state at least one character is on the          *)
(* lantern's side, so while gameStatus is 'playing' validateMove accepts   *)
(* at least one selection: the game cannot get stuck while playing.        *)
(***************************************************************************)
C30_LanternSideNeverEmpty ==
    /\ Len(getCharactersOnSide(GS, lanternSide)) > 0
    /\ gameStatus = "playing"
          => \E sel \in Selections : validateMove(GS, sel).valid

\* the lantern on the right with one character, who alone can move
C30_Witness ==
    /\ gameStatus = "playing"
    /\ lanternSide = "right"
    /\ Len(getCharactersOnSide(GS, "right")) = 1
    /\ Cardinality({sel \in Selections : validateMove(GS, sel).valid}) = 1

(***************************************************************************)
(* C26. The countdown is passive: timeRemaining goes down once for each    *)
(* completed crossing, by that crossing's time (not below 0), and nothing  *)
(* else changes it: not the one-second tick updateGameTimer, not a         *)
(* selection change, not the start of a crossing.                          *)
(***************************************************************************)
C26_CountdownIsPassive ==
    [][/\ lastOp' = "onComplete"
           => timeRemaining' = Floor0(timeRemaining - lastResult'.timeUsed)
       /\ lastOp' # "onComplete" => timeRemaining' = timeRemaining]_vars

\* the timer ticking while a crossing is being animated, after an earlier
\* crossing was charged
C26_Witness ==
    /\ lastOp = "updateGameTimer"
    /\ pending # <<>>
    /\ moveHistory # <<>>
    /\ timeRemaining = InitialTime - SumTimeUsed(moveHistory)

(***************************************************************************)
(* C27. Input is disabled in the end-game states: once an animated         *)
(* crossing has completed with gameStatus 'won' or 'lost',                 *)
(* InputHandler.inputEnabled is false.                                     *)
(***************************************************************************)
C27_InputDisabledAfterGameEnd ==
    gameStatus \in {"won", "lost"} /\ pending = <<>> => ~inputEnabled

C32_TimeRemainingIsBudgetLessHistory ==
    timeRemaining = Floor0(InitialTime - SumTimeUsed(moveHistory))

\* records that add up to more than 17 minutes: the floor at 0 applies
C32_Witness ==
    /\ SumTimeUsed(moveHistory) > InitialTime
    /\ Len(moveHistory) >= 3
    /\ timeRemaining = 0

EffectOf(r) ==
    [result |-> r.result,
     state |-> [r.state EXCEPT !.moveHistory =
                   [k \in 1..Len(r.state.moveHistory) |->
                       [r.state.moveHistory[k] EXCEPT
                           !.characters = SetOf(r.state.moveHistory[k].characters)]]]]

\* C35: the result of validateMove (valid flag and list of errors) and the
\* effect of executeCrossing do not depend on the order in which the same
\* set of characters is listed in the selection.
C35_OrderOfSelectionIrrelevant ==
    \A s, t \in Orderings :
        SetOf(s) = SetOf(t)
            => /\ validateMove(GS, s) = validateMove(GS, t)
               /\ EffectOf(executeCrossing(GS, s)) = EffectOf(executeCrossing(GS, t))

====
